---- MODULE Spec2Model ----
(***************************************************************************)
(* Model of src/rpi-vision-client/main.py: the RPiVisionClient main loop   *)
(* (run), the per-camera step (process_camera), the retry layer            *)
(* (capture_frame_with_retry), the three external calls (capture_frame,    *)
(* send_frame, report_error) and the signal handler (_handle_shutdown).    *)
(*                                                                         *)
(* The client is one thread.  Its position is pc; the signal handler runs  *)
(* between any two steps of it.  Time is the integer `clock`, the value of  *)
(* time.time() - cycle_start (the only way run reads the time, line 310);  *)
(* it advances only inside an external call or a sleep.                    *)
(* time.sleep is resumed after a signal handler that returns normally      *)
(* (PEP 475; the source needs Python >= 3.9 for list[CameraConfig]), so a  *)
(* sleep always lasts its full duration.                                   *)
(***************************************************************************)
EXTENDS Integers, Sequences, FiniteSets, TLC

\* ------------------------------------------------------------------------
\* Bounds of the model
\* ------------------------------------------------------------------------
MaxRetriesBound == 3
NumCameras == 2
MaxCycles == 2
MaxInterval == 4

\* ------------------------------------------------------------------------
\* Program constants
\* ------------------------------------------------------------------------
CaptureTimeout == 10
SendTimeout == 30
ReportTimeout == 10

\* ------------------------------------------------------------------------
\* Values
\* ------------------------------------------------------------------------
\* Optional[bytes] / Optional[dict]: None, or a value.
None == [some |-> FALSE]
Some(v) == [some |-> TRUE, val |-> v]

\* What subprocess.run can do inside capture_frame: raise, or complete with a
\* return code and a stdout payload.  `payload` is the non-empty output the
\* ffmpeg process of this attempt would write.
CaptureOutcomes(payload) ==
    { [exc |-> e, returncode |-> 0, stdout |-> <<>>] :
          e \in {"TimeoutExpired", "FileNotFoundError", "Exception"} }
    \cup
    { [exc |-> "none", returncode |-> rc, stdout |-> out] :
          rc \in {0, 1}, out \in {<<>>, payload} }

\* Wall-clock time an external call takes: the timeout when it times out, one
\* time-unit otherwise.
CaptureDuration(res) == IF res.exc = "TimeoutExpired" THEN CaptureTimeout ELSE 1

\* What requests.post can do inside send_frame / report_error.
HttpOutcomes ==
    {"200", "200_bad_json", "401", "404", "500", "Timeout", "ConnectionError", "Exception"}

SendDuration(o) == IF o = "Timeout" THEN SendTimeout ELSE 1
ReportDuration(o) == IF o = "Timeout" THEN ReportTimeout ELSE 1

Signals == {"SIGINT", "SIGTERM"}

RECURSIVE SumSeq(_)
SumSeq(s) == IF s = <<>> THEN 0 ELSE Head(s) + SumSeq(Tail(s))

Max(a, b) == IF a >= b THEN a ELSE b

\* ------------------------------------------------------------------------
\* Pure parts of the code
\* ------------------------------------------------------------------------
\* Variant of CaptureFrame: the length of the payload is not tested.
CaptureFrameAnyLength(res) ==
    IF res.exc # "none" THEN None
    ELSE IF res.returncode # 0 THEN None
    ELSE Some(res.stdout)

\* capture_frame: bytes only for exit status 0 and a non-empty payload.
CaptureFrame(res) ==
    IF res.exc # "none" THEN None
    ELSE IF res.returncode # 0 THEN None
    ELSE IF Len(res.stdout) = 0 THEN None
    ELSE Some(res.stdout)

\* Variant of InRange: the loop body runs at least once.
InRangeAtLeastOnce(att, maxr) == att < Max(1, maxr)

\* capture_frame_with_retry, line 145: is `att` in range(max_retries)?
InRange(att, maxr) == att < maxr

\* Variant of ShouldBackoff: the last attempt is not exempted from the sleep.
ShouldBackoffEveryAttempt(att, maxr) == att < maxr

\* capture_frame_with_retry, line 150: is a backoff sleep due after this
\* failed attempt?
ShouldBackoff(att, maxr) == att < maxr - 1

\* Variant of Backoff: a product where the code has a power.
BackoffLinear(att) == 2 * att

\* capture_frame_with_retry, line 152.
Backoff(att) == 2 ^ att

\* Variant of SendFrame: the `except requests.exceptions.Timeout` clause and
\* the clauses after it are missing.
SendFrameTimeoutEscapes(o) ==
    IF o \in {"Timeout", "ConnectionError", "Exception", "200_bad_json"}
    THEN [ret |-> None, raised |-> TRUE]
    ELSE IF o = "200" THEN [ret |-> Some("detections"), raised |-> FALSE]
    ELSE [ret |-> None, raised |-> FALSE]

\* Variant of SendFrame: the final `except Exception` clause is missing.
SendFrameUncaught(o) ==
    IF o \in {"Exception", "200_bad_json"} THEN [ret |-> None, raised |-> TRUE]
    ELSE IF o = "200" THEN [ret |-> Some("detections"), raised |-> FALSE]
    ELSE [ret |-> None, raised |-> FALSE]

\* send_frame: the value returned, and whether an exception leaves the function.
SendFrame(o) ==
    IF o = "401" THEN [ret |-> None, raised |-> FALSE]
    ELSE IF o = "404" THEN [ret |-> None, raised |-> FALSE]
    ELSE IF o \in {"500"} THEN [ret |-> None, raised |-> FALSE]
    ELSE IF o = "200" THEN [ret |-> Some("detections"), raised |-> FALSE]
    ELSE [ret |-> None, raised |-> FALSE]

\* Variant of ReportErrorRaises: only a timeout is caught.
ReportErrorCatchesTimeoutOnly(o) == o \in {"ConnectionError", "Exception"}

\* Variant of ReportErrorRaises: the `except Exception` clause is missing.
ReportErrorUncaught(o) == o \in {"Timeout", "ConnectionError", "Exception"}

\* report_error: whether an exception leaves the function.
ReportErrorRaises(o) == FALSE

\* Variant of SendRequest: the request names the first camera.
SendRequestFirstCamera(cam, f) ==
    [url |-> "/api/vision/detect", camera_id |-> 1, frame |-> f]

\* send_frame, lines 173-185: the request carries the camera and the frame.
SendRequest(cam, f) ==
    [url |-> "/api/vision/detect", camera_id |-> cam, frame |-> f]

\* report_error, lines 235-245: the request carries the camera (and a text).
ReportRequest(cam) ==
    [url |-> "/api/vision/health/report", camera_id |-> cam, frame |-> None]

\* Variant of OnCaptureResult: the `frame is None` test is missing.
OnCaptureResultAlwaysSend(f) == "send"

\* process_camera, lines 274-283: what follows the capture.
OnCaptureResult(f) == IF f = None THEN "report" ELSE "send"

\* Variant of NextIndex: the iteration skips a camera.
NextIndexSkipping(i) == i + 2

\* run, line 304: the for loop takes the cameras one after the other.
NextIndex(i) == i + 1

\* Variant of LoopCondition: `while True`.
LoopConditionForever(run) == TRUE

\* run, line 300.
LoopCondition(run) == run

\* Variant of SleepTime: the time already spent in the cycle is ignored.
SleepTimeFullInterval(intv, el) == intv

\* run, line 311.
SleepTime(intv, el) == Max(0, intv - el)

\* Variant of ShouldSleep: the running flag is not consulted.
ShouldSleepIgnoringFlag(st, run) == st > 0

\* run, line 313.
ShouldSleep(st, run) == st > 0 /\ run

\* ------------------------------------------------------------------------
\* State
\* ------------------------------------------------------------------------
VARIABLES
    max_retries, interval, cameras,     \* ClientConfig
    running,                            \* RPiVisionClient.running
    pc,                                 \* position of the main thread
    clock,                              \* time.time() - cycle_start
    cam_idx, elapsed,                   \* locals of run
    attempt, frame, sleep_left,         \* locals of capture_frame_with_retry / process_camera
    cap_result, http_outcome, send_ret, \* last external results
    request,                            \* body of the HTTP request in flight
    cycles, requested,                  \* history: cycles started, a signal was delivered
    attempts, sleeps, waited, capture_end, \* history of the current capture_frame_with_retry call
    in_flight,                          \* history: ffmpeg processes started and not yet ended
    called, failed, submits, reports,   \* history of the current cycle
    req_backoff_time, attempts_after, sleeps_after, req_sleep_time

cfg == <<max_retries, interval, cameras>>
sig == <<requested, req_backoff_time, attempts_after, sleeps_after, req_sleep_time>>
call == <<attempts, sleeps, waited, capture_end, in_flight>>
cyc == <<called, failed, submits, reports>>
ext == <<cap_result, http_outcome, send_ret, request>>

vars == <<cfg, running, pc, clock, cam_idx, elapsed, attempt, frame,
          sleep_left, ext, cycles, call, cyc, sig>>

NoResult == [exc |-> "idle", returncode |-> 0, stdout |-> <<>>]
NoRequest == [url |-> "none", camera_id |-> 0, frame |-> None]
ZeroCount == [c \in 1..Len(cameras) |-> 0]

Init ==
    /\ max_retries \in (-1)..MaxRetriesBound
    /\ interval \in {0, MaxInterval}
    /\ cameras \in { [i \in 1..n |-> i] : n \in 1..NumCameras }
    /\ running = FALSE
    /\ pc = "init"
    /\ clock = 0
    /\ cam_idx = 0
    /\ elapsed = 0
    /\ attempt = 0
    /\ frame = None
    /\ sleep_left = 0
    /\ cap_result = NoResult
    /\ http_outcome = "idle"
    /\ send_ret = None
    /\ request = NoRequest
    /\ cycles = 0
    /\ requested = FALSE
    /\ attempts = 0
    /\ sleeps = <<>>
    /\ waited = 0
    /\ capture_end = 0
    /\ in_flight = 0
    /\ called = <<>>
    /\ failed = {}
    /\ submits = [c \in 1..Len(cameras) |-> 0]
    /\ reports = [c \in 1..Len(cameras) |-> 0]
    /\ req_backoff_time = -1
    /\ attempts_after = 0
    /\ sleeps_after = 0
    /\ req_sleep_time = -1

\* Variant of HandleShutdown: the handler acts on SIGINT only.
HandleShutdownSigintOnly(signum) ==
    /\ pc \notin {"stopped", "crashed"}
    /\ running' = IF signum = "SIGINT" THEN FALSE ELSE running
    /\ requested' = TRUE
    /\ req_backoff_time' =
           IF pc = "backoff" /\ req_backoff_time < 0 THEN clock ELSE req_backoff_time
    /\ req_sleep_time' =
           IF pc = "sleep" /\ req_sleep_time < 0 THEN clock ELSE req_sleep_time
    /\ UNCHANGED <<cfg, pc, clock, cam_idx, elapsed, attempt, frame, sleep_left,
                   ext, cycles, call, cyc, attempts_after, sleeps_after>>

\* Variant of HandleShutdown: the handler raises, as the default SIGINT
\* handler does, and the exception ends the main thread where it stands.
HandleShutdownRaising(signum) ==
    /\ pc \notin {"stopped", "crashed"}
    /\ running' = FALSE
    /\ pc' = "crashed"
    /\ requested' = TRUE
    /\ req_backoff_time' =
           IF pc = "backoff" /\ req_backoff_time < 0 THEN clock ELSE req_backoff_time
    /\ req_sleep_time' =
           IF pc = "sleep" /\ req_sleep_time < 0 THEN clock ELSE req_sleep_time
    /\ UNCHANGED <<cfg, clock, cam_idx, elapsed, attempt, frame, sleep_left,
                   ext, cycles, call, cyc, attempts_after, sleeps_after>>

\* ------------------------------------------------------------------------
\* _handle_shutdown: runs between two steps of the main thread, for either
\* signal, as long as the process lives.
\* ------------------------------------------------------------------------
HandleShutdown(signum) ==
    /\ pc \notin {"stopped", "crashed"}
    /\ running' = FALSE
    /\ requested' = TRUE
    /\ req_backoff_time' =
           IF pc = "backoff" /\ req_backoff_time < 0 THEN clock ELSE req_backoff_time
    /\ req_sleep_time' =
           IF pc = "sleep" /\ req_sleep_time < 0 THEN clock ELSE req_sleep_time
    /\ UNCHANGED <<cfg, pc, clock, cam_idx, elapsed, attempt, frame, sleep_left,
                   ext, cycles, call, cyc, attempts_after, sleeps_after>>

\* ------------------------------------------------------------------------
\* run
\* ------------------------------------------------------------------------
\* line 298
RunStart ==
    /\ pc = "init"
    /\ running' = TRUE
    /\ pc' = "while"
    /\ UNCHANGED <<cfg, clock, cam_idx, elapsed, attempt, frame, sleep_left, ext,
                   cycles, call, cyc, sig>>

\* lines 300-301: the loop condition holds, a cycle starts.  elapsed is dead
\* until line 310 assigns it again.
CycleStart ==
    /\ pc = "while"
    /\ LoopCondition(running)
    /\ clock' = 0
    /\ elapsed' = 0
    /\ cam_idx' = 1
    /\ pc' = "for"
    /\ cycles' = IF cycles < MaxCycles THEN cycles + 1 ELSE cycles
    /\ called' = <<>>
    /\ failed' = {}
    /\ submits' = ZeroCount
    /\ reports' = ZeroCount
    /\ UNCHANGED <<cfg, running, attempt, frame, sleep_left, ext, call, sig>>

\* lines 300, 317: the loop condition fails, run returns
RunExit ==
    /\ pc = "while"
    /\ ~LoopCondition(running)
    /\ pc' = "stopped"
    /\ UNCHANGED <<cfg, running, clock, cam_idx, elapsed, attempt, frame,
                   sleep_left, ext, cycles, call, cyc, sig>>

\* line 304: the camera list is exhausted
ForExhausted ==
    /\ pc = "for"
    /\ cam_idx > Len(cameras)
    /\ pc' = "elapsed"
    /\ UNCHANGED <<cfg, running, clock, cam_idx, elapsed, attempt, frame,
                   sleep_left, ext, cycles, call, cyc, sig>>

\* lines 305-306
ForBreak ==
    /\ pc = "for"
    /\ cam_idx <= Len(cameras)
    /\ ~running
    /\ pc' = "elapsed"
    /\ UNCHANGED <<cfg, running, clock, cam_idx, elapsed, attempt, frame,
                   sleep_left, ext, cycles, call, cyc, sig>>

\* lines 307, 268-272, 145: process_camera calls capture_frame_with_retry
ProcessCamera ==
    /\ pc = "for"
    /\ cam_idx <= Len(cameras)
    /\ running
    /\ pc' = "retry"
    /\ attempt' = 0
    /\ attempts' = 0
    /\ sleeps' = <<>>
    /\ waited' = 0
    /\ called' = Append(called, cameras[cam_idx])
    /\ UNCHANGED <<cfg, running, clock, cam_idx, elapsed, frame, sleep_left, ext,
                   cycles, capture_end, in_flight, failed, submits, reports, sig>>

\* ------------------------------------------------------------------------
\* capture_frame_with_retry
\* ------------------------------------------------------------------------
\* lines 145-146, 105: another attempt, capture_frame starts ffmpeg
AttemptStart ==
    /\ pc = "retry"
    /\ InRange(attempt, max_retries)
    /\ pc' = "capture"
    /\ attempts' = attempts + 1
    /\ in_flight' = in_flight + 1
    /\ cap_result' = NoResult
    /\ attempts_after' = IF req_backoff_time >= 0 THEN attempts_after + 1 ELSE attempts_after
    /\ UNCHANGED <<cfg, running, clock, cam_idx, elapsed, attempt, frame, sleep_left,
                   http_outcome, send_ret, request, cycles, sleeps, waited, capture_end, cyc,
                   requested, req_backoff_time, sleeps_after, req_sleep_time>>

\* lines 145, 156-157: range(max_retries) is exhausted
RetryExhausted ==
    /\ pc = "retry"
    /\ ~InRange(attempt, max_retries)
    /\ frame' = None
    /\ pc' = "captured"
    /\ cap_result' = NoResult
    /\ UNCHANGED <<cfg, running, clock, cam_idx, elapsed, attempt, sleep_left,
                   http_outcome, send_ret, request, cycles, call, cyc, sig>>

\* Variant of CaptureReturn: a missing ffmpeg is not retried, the call gives
\* up at once.
CaptureReturnMissingToolFatal(res) ==
    /\ pc = "capture"
    /\ clock' = clock + CaptureDuration(res)
    /\ capture_end' = clock + CaptureDuration(res)
    /\ in_flight' = in_flight - 1
    /\ cap_result' = res
    /\ LET f == CaptureFrame(res) IN
       IF f # None
       THEN /\ frame' = f
            /\ pc' = "captured"
            /\ UNCHANGED <<attempt, sleep_left, sleeps, sleeps_after>>
       ELSE IF res.exc = "FileNotFoundError"
       THEN /\ frame' = None
            /\ pc' = "captured"
            /\ UNCHANGED <<attempt, sleep_left, sleeps, sleeps_after>>
       ELSE IF ShouldBackoff(attempt, max_retries)
       THEN /\ pc' = "backoff"
            /\ sleep_left' = Backoff(attempt)
            /\ sleeps' = Append(sleeps, Backoff(attempt))
            /\ sleeps_after' = IF req_backoff_time >= 0 THEN sleeps_after + 1 ELSE sleeps_after
            /\ UNCHANGED <<attempt, frame>>
       ELSE /\ pc' = "retry"
            /\ attempt' = attempt + 1
            /\ UNCHANGED <<frame, sleep_left, sleeps, sleeps_after>>
    /\ UNCHANGED <<cfg, running, cam_idx, elapsed, http_outcome, send_ret, request, cycles,
                   attempts, waited, cyc, requested, req_backoff_time,
                   attempts_after, req_sleep_time>>

\* lines 105-130, 147-154: capture_frame returns; success returns the frame,
\* failure either starts the backoff sleep or goes to the next attempt
CaptureReturn(res) ==
    /\ pc = "capture"
    /\ clock' = clock + CaptureDuration(res)
    /\ capture_end' = clock + CaptureDuration(res)
    /\ in_flight' = in_flight - 1
    /\ cap_result' = res
    /\ LET f == CaptureFrame(res) IN
       IF f # None
       THEN /\ frame' = f
            /\ pc' = "captured"
            /\ UNCHANGED <<attempt, sleep_left, sleeps, sleeps_after>>
       ELSE IF ShouldBackoff(attempt, max_retries)
       THEN /\ pc' = "backoff"
            /\ sleep_left' = Backoff(attempt)
            /\ sleeps' = Append(sleeps, Backoff(attempt))
            /\ sleeps_after' = IF req_backoff_time >= 0 THEN sleeps_after + 1 ELSE sleeps_after
            /\ UNCHANGED <<attempt, frame>>
       ELSE /\ pc' = "retry"
            /\ attempt' = attempt + 1
            /\ UNCHANGED <<frame, sleep_left, sleeps, sleeps_after>>
    /\ UNCHANGED <<cfg, running, cam_idx, elapsed, http_outcome, send_ret, request, cycles,
                   attempts, waited, cyc, requested, req_backoff_time,
                   attempts_after, req_sleep_time>>

\* line 154: one time-unit of the backoff sleep passes
BackoffTick ==
    /\ pc = "backoff"
    /\ sleep_left > 0
    /\ clock' = clock + 1
    /\ waited' = waited + 1
    /\ sleep_left' = sleep_left - 1
    /\ cap_result' = NoResult
    /\ UNCHANGED <<cfg, running, pc, cam_idx, elapsed, attempt, frame, http_outcome,
                   send_ret, request, cycles, attempts, sleeps, capture_end, in_flight, cyc, sig>>

\* lines 154, 145: the backoff sleep is over, next iteration
BackoffWake ==
    /\ pc = "backoff"
    /\ sleep_left = 0
    /\ attempt' = attempt + 1
    /\ pc' = "retry"
    /\ cap_result' = NoResult
    /\ UNCHANGED <<cfg, running, clock, cam_idx, elapsed, frame, sleep_left,
                   http_outcome, send_ret, request, cycles, call, cyc, sig>>

\* ------------------------------------------------------------------------
\* process_camera, after the capture
\* ------------------------------------------------------------------------
\* lines 274-283: report_error or send_frame issues its request
ProcessCaptureResult ==
    /\ pc = "captured"
    /\ pc' = OnCaptureResult(frame)
    /\ cap_result' = NoResult
    /\ request' = IF pc' = "send"
                  THEN SendRequest(cameras[cam_idx], frame)
                  ELSE ReportRequest(cameras[cam_idx])
    /\ failed' = IF frame = None THEN failed \cup {cameras[cam_idx]} ELSE failed
    /\ reports' = IF pc' = "report"
                  THEN [reports EXCEPT ![cam_idx] = @ + 1] ELSE reports
    /\ submits' = IF pc' = "send"
                  THEN [submits EXCEPT ![cam_idx] = @ + 1] ELSE submits
    /\ UNCHANGED <<cfg, running, clock, cam_idx, elapsed, attempt, frame, sleep_left,
                   http_outcome, send_ret, cycles, call, called, sig>>

\* lines 187-223, 285-286: send_frame returns (or an exception escapes it)
SendReturn(o) ==
    /\ pc = "send"
    /\ clock' = clock + SendDuration(o)
    /\ http_outcome' = o
    /\ send_ret' = SendFrame(o).ret
    /\ pc' = IF SendFrame(o).raised THEN "crashed" ELSE "pc_done"
    /\ UNCHANGED <<cfg, running, cam_idx, elapsed, attempt, frame, sleep_left,
                   cap_result, request, cycles, call, cyc, sig>>

\* lines 247-259, 278: report_error returns (or an exception escapes it)
ReportReturn(o) ==
    /\ pc = "report"
    /\ clock' = clock + ReportDuration(o)
    /\ http_outcome' = o
    /\ pc' = IF ReportErrorRaises(o) THEN "crashed" ELSE "pc_done"
    /\ UNCHANGED <<cfg, running, cam_idx, elapsed, attempt, frame, sleep_left,
                   cap_result, send_ret, request, cycles, call, cyc, sig>>

\* line 304: process_camera has returned and its locals are gone; the for
\* loop advances
ForNext ==
    /\ pc = "pc_done"
    /\ cam_idx' = NextIndex(cam_idx)
    /\ pc' = "for"
    /\ frame' = None
    /\ attempt' = 0
    /\ http_outcome' = "idle"
    /\ send_ret' = None
    /\ request' = NoRequest
    /\ attempts' = 0
    /\ sleeps' = <<>>
    /\ waited' = 0
    /\ capture_end' = 0
    /\ UNCHANGED <<cfg, running, clock, elapsed, sleep_left, cap_result, cycles,
                   in_flight, cyc, sig>>

\* ------------------------------------------------------------------------
\* run, end of the cycle
\* ------------------------------------------------------------------------
\* lines 310-315
ComputeSleep ==
    /\ pc = "elapsed"
    /\ elapsed' = clock
    /\ LET sleep_time == SleepTime(interval, clock) IN
       IF ShouldSleep(sleep_time, running)
       THEN pc' = "sleep" /\ sleep_left' = sleep_time
       ELSE pc' = "while" /\ sleep_left' = 0
    /\ UNCHANGED <<cfg, running, clock, cam_idx, attempt, frame, ext, cycles, call,
                   cyc, sig>>

\* line 315: one time-unit of the inter-cycle sleep passes
SleepTick ==
    /\ pc = "sleep"
    /\ sleep_left > 0
    /\ clock' = clock + 1
    /\ sleep_left' = sleep_left - 1
    /\ UNCHANGED <<cfg, running, pc, cam_idx, elapsed, attempt, frame, ext, cycles,
                   call, cyc, sig>>

\* lines 315, 300: the inter-cycle sleep is over
SleepWake ==
    /\ pc = "sleep"
    /\ sleep_left = 0
    /\ pc' = "while"
    /\ UNCHANGED <<cfg, running, clock, cam_idx, elapsed, attempt, frame,
                   sleep_left, ext, cycles, call, cyc, sig>>

\* The output ffmpeg writes for the attempt in flight, named by its origin.
Payload == <<cycles, cam_idx, attempts>>

Next ==
    \/ \E s \in Signals : HandleShutdown(s)
    \/ RunStart
    \/ CycleStart
    \/ RunExit
    \/ ForExhausted
    \/ ForBreak
    \/ ProcessCamera
    \/ AttemptStart
    \/ RetryExhausted
    \/ \E res \in CaptureOutcomes(Payload) : CaptureReturn(res)
    \/ BackoffTick
    \/ BackoffWake
    \/ ProcessCaptureResult
    \/ \E o \in HttpOutcomes : SendReturn(o)
    \/ \E o \in HttpOutcomes : ReportReturn(o)
    \/ ForNext
    \/ ComputeSleep
    \/ SleepTick
    \/ SleepWake

Spec == Init /\ [][Next]_vars

\* The steps of the main thread: everything but the delivery of a signal.
MainThread ==
    \/ RunStart
    \/ CycleStart
    \/ RunExit
    \/ ForExhausted
    \/ ForBreak
    \/ ProcessCamera
    \/ AttemptStart
    \/ RetryExhausted
    \/ \E res \in CaptureOutcomes(Payload) : CaptureReturn(res)
    \/ BackoffTick
    \/ BackoffWake
    \/ ProcessCaptureResult
    \/ \E o \in HttpOutcomes : SendReturn(o)
    \/ \E o \in HttpOutcomes : ReportReturn(o)
    \/ ForNext
    \/ ComputeSleep
    \/ SleepTick
    \/ SleepWake

\* The main thread keeps running: the interpreter executes its next
\* statement, every external call returns within its timeout and every sleep
\* ends.  Termination is checked for configurations of one or two cameras.
FairInit == Init /\ Len(cameras) <= 2

FairSpec == FairInit /\ [][Next]_vars /\ WF_vars(MainThread)

\* ------------------------------------------------------------------------
\* Properties
\* ------------------------------------------------------------------------
\* C1: for max_retries = N >= 1, a capture_frame_with_retry call in which
\* every attempt fails returns None after exactly N attempts, having slept
\* 1, 2, 4, ..., 2^(N-2) time-units between consecutive attempts and nothing
\* after the N-th attempt.
ExhaustedRetrySchedule ==
    /\ (pc = "backoff" /\ max_retries >= 1) =>
           /\ Len(sleeps) = attempts
           /\ sleeps[attempts] = 2 ^ (attempts - 1)
           /\ attempts < max_retries
    /\ (pc = "captured" /\ frame = None /\ max_retries >= 1) =>
           /\ attempts = max_retries
           /\ sleeps = [i \in 1..(max_retries - 1) |-> 2 ^ (i - 1)]
           /\ waited = SumSeq(sleeps)
           /\ clock = capture_end
           /\ sleep_left = 0

ExhaustedRetryWitness ==
    /\ pc = "captured"
    /\ frame = None
    /\ max_retries = MaxRetriesBound
    /\ attempts = MaxRetriesBound
    /\ Len(sleeps) >= 2

\* C2: when attempt k <= N is the first to succeed, capture_frame_with_retry
\* has made exactly k attempts, returns the frame of attempt k at the moment
\* that attempt ends, and the backoff sleeps before it total 2^(k-1) - 1.
FirstSuccessReturned ==
    (pc = "captured" /\ frame # None) =>
        /\ attempts >= 1
        /\ attempts <= max_retries
        /\ attempts = attempt + 1
        /\ frame = Some(<<cycles, cam_idx, attempts>>)
        /\ Len(sleeps) = attempts - 1
        /\ SumSeq(sleeps) = 2 ^ (attempts - 1) - 1
        /\ waited = 2 ^ (attempts - 1) - 1
        /\ clock = capture_end
        /\ sleep_left = 0

FirstSuccessWitness ==
    /\ pc = "captured"
    /\ frame # None
    /\ attempts = 3
    /\ waited = 3

\* C3: when the next cycle is about to start (no shutdown seen), the time
\* since the current cycle's start is the interval I if processing took
\* P < I, and is P itself (no sleep) if P >= I; the sleep lasts I - P.
CadenceHeld ==
    /\ (pc = "sleep") => (elapsed < interval /\ clock + sleep_left = interval)
    /\ (pc = "while" /\ running /\ cycles >= 1) =>
           IF elapsed < interval THEN clock = interval ELSE clock = elapsed

CadenceWitness ==
    /\ pc = "while"
    /\ running
    /\ cycles >= 1
    /\ elapsed > 0
    /\ elapsed < interval
    /\ clock = interval

\* C4: after a shutdown request delivered during a retry backoff sleep, no
\* further capture attempt or backoff sleep of that source is made and the
\* process is stopped within 10 time-units.
BackoffShutdownPrompt ==
    (req_backoff_time >= 0) =>
        /\ attempts_after = 0
        /\ sleeps_after = 0
        /\ (pc # "stopped" => clock - req_backoff_time <= CaptureTimeout)

\* C5: after a shutdown request delivered during the inter-cycle sleep of a
\* run with max_retries >= 1, no more time is spent sleeping.
CycleSleepInterrupted ==
    (req_sleep_time >= 0 /\ max_retries >= 1) => (clock = req_sleep_time)

\* C6: once a shutdown signal was delivered, the running flag is false and
\* stays false.
ShutdownRequestSticks ==
    requested => ~running

\* C7: once run finds the running flag false when it is about to start a
\* source, nothing more is done: no capture attempt, submission or health
\* report, no sleep, no new cycle; the only way on is the break, the skipped
\* sleep, the failed loop test and the return of run.
Abandoned == ~running /\ pc \in {"for", "elapsed", "while", "stopped"}

CycleAbandoned ==
    [][Abandoned =>
          /\ Abandoned'
          /\ UNCHANGED <<clock, cycles, attempts, called, submits, reports>>
          /\ (pc = "for" => pc' \in {"for", "elapsed"})
          /\ (pc = "elapsed" => pc' \in {"elapsed", "while"})
          /\ (pc = "while" => pc' \in {"while", "stopped"})]_vars

CycleAbandonedWitness ==
    /\ pc = "stopped"
    /\ cycles >= 1
    /\ Len(called) >= 1
    /\ Len(called) < Len(cameras)
    /\ cam_idx <= Len(cameras)
    /\ elapsed < interval

\* C8: in a cycle in which no shutdown was seen, every configured source has
\* had its capture_frame_with_retry call, in the configured order, whatever
\* the outcome for the sources before it.
CycleOver == pc \in {"elapsed", "sleep", "while", "stopped", "crashed"}

LaterSourcesProcessed ==
    (running /\ cycles >= 1 /\ CycleOver) => called = cameras

LaterSourcesWitness ==
    /\ pc = "elapsed"
    /\ running
    /\ Len(cameras) >= 2
    /\ 1 \in failed
    /\ max_retries >= 1
    /\ called = cameras

\* C9: when process_camera returns, a failed capture has led to exactly one
\* health report and no submission, and a successful capture to exactly one
\* submission and no health report, whatever the submission's outcome.
OneReportOrOneSubmission ==
    (pc = "pc_done") =>
        IF frame = None
        THEN reports[cam_idx] = 1 /\ submits[cam_idx] = 0
        ELSE submits[cam_idx] = 1 /\ reports[cam_idx] = 0

OneSubmissionWitness ==
    /\ pc = "pc_done"
    /\ frame # None
    /\ http_outcome = "401"
    /\ submits[cam_idx] = 1
    /\ reports[cam_idx] = 0

\* C10: whatever goes wrong with the detection request, send_frame returns
\* None, the request is made at most once per source per cycle, the running
\* flag is not touched and the for loop goes on to the next source.
SubmissionFailureNonFatal ==
    /\ [](pc # "crashed")
    /\ [](\A c \in 1..Len(cameras) : submits[c] <= 1)
    /\ []((pc = "pc_done" /\ frame # None /\ http_outcome # "200") => send_ret = None)
    /\ [][(pc = "send" /\ pc' # "send") =>
             (pc' = "pc_done" /\ running' = running /\ cam_idx' = cam_idx)]_vars
    /\ [][(pc = "pc_done" /\ pc' # "pc_done") =>
             (pc' = "for" /\ running' = running /\ cam_idx' = cam_idx + 1)]_vars

SubmissionFailureWitness ==
    /\ pc = "pc_done"
    /\ frame # None
    /\ http_outcome = "Timeout"
    /\ send_ret = None
    /\ submits[cam_idx] = 1
    /\ running
    /\ cam_idx < Len(cameras)

\* C11: whatever goes wrong with the health-report request, report_error
\* returns normally: the report is made at most once per source per cycle,
\* no capture attempt follows it, the running flag is not touched and the
\* for loop goes on to the next source.
ReportFailureSwallowed ==
    /\ [](pc # "crashed")
    /\ [](\A c \in 1..Len(cameras) : reports[c] <= 1)
    /\ [][(pc = "report" /\ pc' # "report") =>
             (pc' = "pc_done" /\ running' = running /\ cam_idx' = cam_idx
              /\ attempts' = attempts /\ reports' = reports)]_vars
    /\ [][(pc = "pc_done" /\ frame = None /\ pc' # "pc_done") =>
             (pc' = "for" /\ running' = running /\ cam_idx' = cam_idx + 1)]_vars

ReportFailureWitness ==
    /\ pc = "pc_done"
    /\ frame = None
    /\ http_outcome = "ConnectionError"
    /\ max_retries >= 1
    /\ attempts = max_retries
    /\ reports[cam_idx] = 1
    /\ running
    /\ cam_idx < Len(cameras)

\* C12: run has returned only if a shutdown signal was delivered before; no
\* failure of a capture, a submission or a health report ends run.
StoppedOnlyOnRequest ==
    (pc \in {"stopped", "crashed"}) => (pc = "stopped" /\ requested /\ ~running)

StoppedOnlyOnRequestWitness ==
    /\ pc = "stopped"
    /\ requested
    /\ cycles >= 2
    /\ failed # {}

\* C13: once the running flag has been cleared after run has started (a
\* shutdown request received while Running), run eventually returns.
ShutdownLeadsToStop ==
    (~running /\ pc # "init") ~> (pc = "stopped")

ShutdownLeadsToStopWitness ==
    /\ pc = "stopped"
    /\ req_backoff_time >= 0
    /\ attempts_after >= 1
    /\ cycles >= 2

\* C14: at most one ffmpeg process is in flight, and only while the main
\* thread is inside capture_frame; within a cycle the sources are started in
\* the configured order, each once, the next only after the one before it
\* has returned; a cycle starts only after the last source of the cycle
\* before it has returned.
InCamera == {"retry", "capture", "backoff", "captured", "send", "report", "pc_done"}

OneSourceAtATime ==
    /\ in_flight \in {0, 1}
    /\ (in_flight = 1) <=> (pc = "capture")
    /\ called = SubSeq(cameras, 1, Len(called))
    /\ (pc \in InCamera) => (Len(called) = cam_idx /\ cam_idx <= Len(cameras))
    /\ (pc = "for") => (Len(called) = cam_idx - 1)
    /\ (pc = "while" /\ running /\ cycles >= 1) => (called = cameras)

OneSourceAtATimeWitness ==
    /\ pc = "capture"
    /\ in_flight = 1
    /\ cycles >= 2
    /\ cam_idx = 2
    /\ called = <<1, 2>>

\* C15: SIGINT and SIGTERM have the same effect: a step is the handler's
\* step for the one exactly if it is the handler's step for the other; the
\* handler leaves the running flag false, and run on a state whose flag is
\* already false it changes nothing of the program's state.
ProgramState ==
    <<cfg, running, pc, clock, cam_idx, elapsed, attempt, frame, sleep_left, ext>>

SignalsEquivalent ==
    [][/\ HandleShutdown("SIGINT") <=> HandleShutdown("SIGTERM")
       /\ (\E s \in Signals : HandleShutdown(s)) => ~running'
       /\ ((\E s \in Signals : HandleShutdown(s)) /\ ~running) =>
              UNCHANGED ProgramState]_vars

SignalsEquivalentWitness ==
    /\ requested
    /\ ~running
    /\ pc = "backoff"
    /\ req_backoff_time >= 0
    /\ cycles >= 1

\* C16: the delivery of a signal moves nothing but the running flag: the
\* main thread stays where it is, an ffmpeg process in flight ends by itself
\* after its own duration, and the processing of a source that has begun
\* goes on to its end, whatever the flag; the for loop is left only at its
\* own test.
CooperativeShutdown ==
    [][/\ (\E s \in Signals : HandleShutdown(s)) =>
              UNCHANGED <<pc, clock, cam_idx, attempt, frame, sleep_left, ext,
                          cycles, call, cyc>>
       /\ (pc \in InCamera) => (pc' \in InCamera \cup {"for"})
       /\ (pc = "capture" /\ pc' # "capture") =>
              /\ pc' \in {"captured", "backoff", "retry"}
              /\ in_flight' = 0
              /\ clock' \in {clock + 1, clock + CaptureTimeout}
       /\ (pc \in InCamera /\ pc' = "for") => (pc = "pc_done")]_vars

CooperativeShutdownWitness ==
    /\ pc = "send"
    /\ ~running
    /\ requested
    /\ frame # None
    /\ cam_idx < Len(cameras)

\* C17: capture_frame hands out a frame exactly when ffmpeg ended with
\* status 0 and wrote a payload of non-zero length, and the frame is that
\* payload; every other outcome is a failure.  So the frame given to
\* send_frame is never empty.
Usable(res) == res.exc = "none" /\ res.returncode = 0 /\ Len(res.stdout) > 0

FrameOnlyFromUsableCapture ==
    /\ (cap_result # NoResult /\ pc = "captured") =>
           (Usable(cap_result) /\ frame = Some(cap_result.stdout))
    /\ (cap_result # NoResult /\ pc \in {"backoff", "retry"}) =>
           (~Usable(cap_result) /\ frame = None)
    /\ (pc = "send") => (frame # None /\ Len(frame.val) > 0)

EmptyPayloadRejectedWitness ==
    /\ pc = "backoff"
    /\ cap_result.exc = "none"
    /\ cap_result.returncode = 0
    /\ cap_result.stdout = <<>>
    /\ frame = None

\* C18: the retry layer treats every failure class of capture_frame alike:
\* the failed attempt is counted once, is followed by the backoff sleep of
\* its index (or, for the last attempt, by none), and leaves the running
\* flag alone; after max_retries failures the source gets exactly one
\* health report and no submission.
UniformFailureHandling ==
    /\ [](pc # "crashed")
    /\ []((pc = "pc_done" /\ frame = None /\ max_retries >= 1) =>
              (attempts = max_retries /\ reports[cam_idx] = 1 /\ submits[cam_idx] = 0))
    /\ [][(pc = "capture" /\ pc' # "capture" /\ ~Usable(cap_result')) =>
             /\ running' = running
             /\ attempts' = attempts
             /\ IF attempt < max_retries - 1
                THEN pc' = "backoff" /\ sleep_left' = 2 ^ attempt /\ attempt' = attempt
                ELSE pc' = "retry" /\ attempt' = attempt + 1]_vars

\* A timeout on the first attempt, then a missing tool on the second.
MixedFailuresWitness ==
    /\ pc = "backoff"
    /\ cycles = 1
    /\ cam_idx = 1
    /\ attempts = 2
    /\ capture_end = CaptureTimeout + 1 + 1
    /\ cap_result.exc = "FileNotFoundError"
    /\ sleep_left = 2

\* C19: a max_retries of zero or less is accepted; with it
\* capture_frame_with_retry starts no ffmpeg process and never sleeps, every
\* process_camera call ends with a health report and no submission, and a
\* full cycle reports every source.
NoAttemptStillReported ==
    (max_retries <= 0) =>
        /\ attempts = 0
        /\ sleeps = <<>>
        /\ waited = 0
        /\ in_flight = 0
        /\ pc \notin {"capture", "backoff", "send"}
        /\ (pc = "pc_done") => (frame = None /\ reports[cam_idx] = 1)
        /\ (running /\ cycles >= 1 /\ CycleOver) =>
               \A c \in 1..Len(cameras) : reports[c] = 1 /\ submits[c] = 0

NoAttemptStillReportedWitness ==
    /\ max_retries = -1
    /\ pc = "elapsed"
    /\ running
    /\ cycles >= 2
    /\ Len(cameras) >= 2
    /\ \A c \in 1..Len(cameras) : reports[c] = 1
    /\ clock = Len(cameras)

\* C20: nothing is carried from one source or cycle to the next.  The
\* detection request in flight names the source being processed and carries
\* the payload of the capture attempt that has just succeeded for it in this
\* cycle, and it is that source's only submission of the cycle; the health
\* request in flight names the source whose capture has just failed; outside
\* process_camera, and while a capture is still being tried, no frame and no
\* request is held.
FreshFrameSubmitted ==
    /\ (pc = "send") =>
           /\ request = [url |-> "/api/vision/detect",
                         camera_id |-> cameras[cam_idx],
                         frame |-> Some(<<cycles, cam_idx, attempts>>)]
           /\ request.frame = frame
           /\ attempts >= 1
           /\ submits[cam_idx] = 1
           /\ called[Len(called)] = cameras[cam_idx]
    /\ (pc = "report") =>
           /\ request = [url |-> "/api/vision/health/report",
                         camera_id |-> cameras[cam_idx],
                         frame |-> None]
           /\ cameras[cam_idx] \in failed
           /\ reports[cam_idx] = 1
    /\ (pc \in {"init", "while", "for", "elapsed", "sleep", "stopped",
                "retry", "capture", "backoff"}) =>
           (frame = None /\ request = NoRequest)

FreshFrameSubmittedWitness ==
    /\ pc = "send"
    /\ cycles = 2
    /\ cam_idx = 2
    /\ 1 \notin failed
    /\ request.camera_id = 2
    /\ request.frame = Some(<<2, 2, 2>>)
====
